---- MODULE Spec2Model ----
(***************************************************************************)
(* Model of the two OneView Ansible modules                                *)
(*   library/oneview_appliance_time_and_locale_configuration.py            *)
(*   library/oneview_id_pools.py                                           *)
(* One invocation runs at a time (each module run is its own process).     *)
(* The appliance behind the SDK resource client is the environment: its    *)
(* answers are nondeterministic choices among the outcomes a call can have.*)
(***************************************************************************)
EXTENDS Integers, Sequences, FiniteSets, TLC

\* ------------------------------------------------------------------ bounds
MaxCount == 1          \* largest 'count' an invocation asks for
MaxIds == 1            \* longest idList of an input or of a backend response
MaxAllocated == 2      \* cap of the appliance's allocated-identifier counter

\* --------------------------------------------------------- value universes
Keys == {"locale", "timezone"}
ValuesOf(k) == IF k = "locale" THEN {"en_US.UTF-8", "en_GB.UTF-8"} ELSE {"UTC", "CET"}
Values == UNION {ValuesOf(k) : k \in Keys}
\* every property mapping over Keys (a DesiredState or a CurrentState)
Maps == UNION {{f \in [S -> Values] : \A k \in S : f[k] \in ValuesOf(k)} : S \in SUBSET Keys}
EmptyMap == [k \in {} |-> "en_US.UTF-8"]

Ids == {"id1"}
IdLists == UNION {[1..n -> Ids] : n \in 0..MaxIds}
PoolTypeInputs == {"vmac"}

\* ------------------------------------------------- constants of the source
TL_MSG_CREATED == "Appliance Locale and Time Configuration created successfully."
TL_MSG_ALREADY_PRESENT == "Appliance Locale and Time Configuration is already configured."
MSG_UPDATED == "Pool updated successfully."
MSG_ALLOCATED == "Given set of IDs have been reserved."
MSG_VALIDATED == "Pool IDs are valid"
MSG_ALREADY_PRESENT == "Pool Updated already."
MSG_IDS_NOT_AVAILABLE == "This set of IDs already allocated"

\* argument_spec choices of the two modules
tl_choices == {"present"}
id_choices == {"allocate", "collect", "validate", "generate", "validate_id_pool",
               "check_range_availability", "get_pool_type", "update_pool_type", "schema"}
\* state values an invocation may be started with: the declared ones and an
\* undeclared one
StateInputs == tl_choices \cup id_choices \cup {"bogus"}

VARIABLES
    applTL,            \* appliance: the time-and-locale singleton resource
    applEnabled,       \* appliance: enabled flag of the pool type
    applAllocated,     \* appliance: identifiers allocated from the pool
    module,            \* which module the running invocation is
    pc,                \* position of the running invocation
    state,             \* module.params['state']
    params,            \* module.params['data'] as given by the caller
    data,              \* self.data
    current_resource,  \* self.current_resource.data (reconciler)
    merged_data,       \* local merged_data of __present
    calls,             \* remote calls this invocation has issued, in order
    result,            \* what the invocation ended with
    fetched,           \* what get_all returned in this invocation
    oldEnabled,        \* applEnabled when this invocation started
    prev,              \* the reconciler run completed just before, same data
    tainted            \* another writer touched applTL during this invocation

vars == <<applTL, applEnabled, applAllocated, module, pc, state, params, data,
          current_resource, merged_data, calls, result, fetched, oldEnabled,
          prev, tainted>>

appl == <<applTL, applEnabled, applAllocated>>
locals == <<current_resource, merged_data, fetched>>
input == <<module, state, params, oldEnabled, prev>>

\* ----------------------------------------------------------------- values
NoErr == [type |-> "", msg |-> ""]
\* a pool-manager payload: the SDK's answer, or the initial {} of id_pool
Resp(op, pt, ids, cnt, en, valid) ==
    [op |-> op, poolType |-> pt, idList |-> ids, count |-> cnt,
     enabled |-> en, valid |-> valid]
EmptyFacts == Resp("", "", <<>>, 0, FALSE, FALSE)
NoResult == [kind |-> "none", changed |-> FALSE, msg |-> "", facts |-> EmptyFacts,
             err |-> NoErr]
Ok(changed, msg, facts) ==
    [kind |-> "ok", changed |-> changed, msg |-> msg, facts |-> facts, err |-> NoErr]
Failed(type, msg) ==
    [kind |-> "error", changed |-> FALSE, msg |-> "", facts |-> EmptyFacts,
     err |-> [type |-> type, msg |-> msg]]
\* a remote call as issued, and how it ended: "ok" or the exception raised
Call(op, pt, ids, cnt, outcome) ==
    [op |-> op, poolType |-> pt, idList |-> ids, count |-> cnt, outcome |-> outcome]
NoPrev == [valid |-> FALSE, D |-> EmptyMap, changed |-> FALSE]

\* the data mapping of a pool-manager invocation: 'has' is its key set
PoolData ==
    {[has |-> h,
      poolType |-> IF "poolType" \in h THEN pt ELSE "",
      idList |-> IF "idList" \in h THEN ids ELSE <<>>,
      count |-> IF "count" \in h THEN cnt ELSE 0,
      enabled |-> IF "enabled" \in h THEN en ELSE FALSE] :
        h \in SUBSET {"poolType", "idList", "count", "enabled"},
        pt \in PoolTypeInputs, ids \in IdLists, cnt \in 0..MaxCount, en \in BOOLEAN}

TypeOK ==
    /\ applTL \in Maps
    /\ applEnabled \in BOOLEAN
    /\ applAllocated \in 0..MaxAllocated
    /\ module \in {"none", "time_locale", "id_pools"}
    /\ state \in StateInputs
    /\ calls \in Seq([op : STRING, poolType : STRING, idList : IdLists, count : Nat,
                      outcome : STRING])
    /\ Len(calls) <= 2

Init ==
    /\ applTL \in Maps
    /\ applEnabled \in BOOLEAN
    /\ applAllocated = 0
    /\ module = "none"
    /\ pc = "idle"
    /\ state = "present"
    /\ params = EmptyMap
    /\ data = EmptyMap
    /\ current_resource = EmptyMap
    /\ merged_data = EmptyMap
    /\ calls = <<>>
    /\ result = NoResult
    /\ fetched = EmptyMap
    /\ oldEnabled = applEnabled
    /\ prev = NoPrev
    /\ tainted = FALSE


\* ---------------------------------------------------------- the invocation
\* A run of one of the two modules starts: main() with the caller's state and
\* data.  prev stays set only for a reconciler run given the same desired
\* state as the reconciler run completed just before it.
Invoke ==
    /\ pc = "idle"
    /\ \E m \in {"time_locale", "id_pools"}, st \in StateInputs :
         /\ module' = m
         /\ state' = st
         /\ params' \in IF m = "time_locale" THEN Maps ELSE PoolData
         /\ prev' = IF m = "time_locale" /\ prev.valid /\ prev.D = params'
                    THEN prev ELSE NoPrev
    /\ data' = params'
    /\ pc' = "init"
    /\ oldEnabled' = applEnabled
    /\ UNCHANGED <<appl, locals, calls, result, tainted>>

\* The run's process ends (exit_json / fail_json); nothing of it persists
\* in-process.  What is remembered is the outcome of a completed reconciler
\* run that no other writer interfered with.
Exit ==
    /\ pc = "done"
    /\ prev' = IF module = "time_locale" /\ result.kind = "ok" /\ ~tainted
               THEN [valid |-> TRUE, D |-> data, changed |-> result.changed]
               ELSE NoPrev
    /\ pc' = "idle"
    /\ module' = "none"
    /\ state' = "present"
    /\ params' = EmptyMap
    /\ data' = EmptyMap
    /\ current_resource' = EmptyMap
    /\ merged_data' = EmptyMap
    /\ fetched' = EmptyMap
    /\ calls' = <<>>
    /\ result' = NoResult
    /\ tainted' = FALSE
    /\ UNCHANGED <<appl, oldEnabled>>

\* variant: the argument spec declares no choices, any state value goes through
choices_Unchecked(m) == StateInputs

\* the 'choices' of the module's argument_spec
choices(m) == IF m = "time_locale" THEN tl_choices ELSE id_choices

\* __init__: the argument spec is checked (state must be one of its choices)
\* before execute_module is reached; a rejected state ends the run.
Construct ==
    /\ pc = "init"
    /\ IF state \in choices(module)
       THEN /\ pc' = "exec"
            /\ result' = result
       ELSE /\ pc' = "done"
            /\ result' = Failed("fail_json", "value of state must be one of the choices")
    /\ UNCHANGED <<appl, input, data, locals, calls, tainted>>

\* ------------------------------------------- the single-resource reconciler
\* variant: the update() is left out, merged_data is the bare copy
Merge_NoUpdate(current, desired) == current

\* variant: the overlay is the wrong way round, current wins on a collision
Merge_CurrentWins(current, desired) ==
    [k \in (DOMAIN current) \cup (DOMAIN desired) |->
        IF k \in DOMAIN current THEN current[k] ELSE desired[k]]

\* merged_data = current.copy(); merged_data.update(data): data wins
Merge(current, desired) ==
    [k \in (DOMAIN current) \cup (DOMAIN desired) |->
        IF k \in DOMAIN desired THEN desired[k] ELSE current[k]]

\* compare of module_utils.oneview: deep equality of two property mappings
compare(first_resource, second_resource) ==
    /\ DOMAIN first_resource = DOMAIN second_resource
    /\ \A k \in DOMAIN first_resource : first_resource[k] = second_resource[k]

\* The appliance's create/overwrite with a payload: every key of the payload
\* takes the payload's value; a key the payload does not name is either kept
\* as it was or dropped by the overwrite.
CreateOutcomes(current, payload) ==
    {r \in Maps :
        /\ DOMAIN payload \subseteq DOMAIN r
        /\ DOMAIN r \subseteq (DOMAIN current) \cup (DOMAIN payload)
        /\ \A k \in DOMAIN r :
              r[k] = IF k \in DOMAIN payload THEN payload[k] ELSE current[k]}

\* execute_module: state is 'present' (the argument spec admits no other
\* value), so __present runs:
\* self.current_resource = self.resource_client.get_all()
TL_GetAll ==
    /\ pc = "exec" /\ module = "time_locale" /\ state = "present"
    /\ \/ /\ calls' = Append(calls, Call("get_all", "", <<>>, 0, "ok"))
          /\ current_resource' = applTL
          /\ fetched' = applTL
          /\ pc' = "merge"
          /\ result' = result
       \/ /\ calls' = Append(calls, Call("get_all", "", <<>>, 0, "HPOneViewException"))
          /\ result' = Failed("HPOneViewException", "request failed")
          /\ pc' = "done"
          /\ UNCHANGED <<current_resource, fetched>>
    /\ UNCHANGED <<appl, input, data, merged_data, tainted>>

\* variant: no copy(), the update is applied to current_resource.data itself
TL_Merge_InPlace ==
    /\ pc = "merge"
    /\ merged_data' = Merge(current_resource, data)
    /\ current_resource' = Merge(current_resource, data)
    /\ pc' = "compare"
    /\ UNCHANGED <<appl, input, data, fetched, calls, result, tainted>>

\* merged_data = self.current_resource.data.copy(); merged_data.update(self.data)
TL_Merge ==
    /\ pc = "merge"
    /\ merged_data' = Merge(current_resource, data)
    /\ pc' = "compare"
    /\ UNCHANGED <<appl, input, data, current_resource, fetched, calls, result, tainted>>

\* variant: the comparison is skipped, every run goes on to create
TL_Compare_AlwaysCreate ==
    /\ pc = "compare"
    /\ pc' = "create"
    /\ UNCHANGED <<appl, input, data, locals, calls, result, tainted>>

\* if not compare(current, merged): go on to create; else: already present
TL_Compare ==
    /\ pc = "compare"
    /\ IF ~compare(current_resource, merged_data)
       THEN /\ pc' = "create"
            /\ result' = result
       ELSE /\ pc' = "done"
            /\ result' = Ok(FALSE, TL_MSG_ALREADY_PRESENT, current_resource)
    /\ UNCHANGED <<appl, input, data, locals, calls, tainted>>

\* variant: a failed create is issued a second time
TL_Create_Retry ==
    /\ pc = "create"
    /\ pc' = "done"
    /\ \/ \E r \in CreateOutcomes(applTL, data) :
             /\ calls' = Append(calls, Call("create", "", <<>>, 0, "ok"))
             /\ applTL' = r
             /\ current_resource' = r
             /\ result' = Ok(TRUE, TL_MSG_CREATED, r)
       \/ \E r \in CreateOutcomes(applTL, data) :
             /\ calls' = calls \o <<Call("create", "", <<>>, 0, "HPOneViewException"),
                                    Call("create", "", <<>>, 0, "ok")>>
             /\ applTL' = r
             /\ current_resource' = r
             /\ result' = Ok(TRUE, TL_MSG_CREATED, r)
    /\ UNCHANGED <<applEnabled, applAllocated, input, data, merged_data, fetched, tainted>>

\* self.current_resource = self.resource_client.create(self.data)
TL_Create ==
    /\ pc = "create"
    /\ pc' = "done"
    /\ \/ \E r \in CreateOutcomes(applTL, data) :
             /\ calls' = Append(calls, Call("create", "", <<>>, 0, "ok"))
             /\ applTL' = r
             /\ current_resource' = r
             /\ result' = Ok(TRUE, TL_MSG_CREATED, r)
       \/ /\ calls' = Append(calls, Call("create", "", <<>>, 0, "HPOneViewException"))
          /\ result' = Failed("HPOneViewException", "request failed")
          /\ UNCHANGED <<applTL, current_resource>>
    /\ UNCHANGED <<applEnabled, applAllocated, input, data, merged_data, fetched, tainted>>

\* another client of the appliance rewrites the time-and-locale resource
ExternalWrite ==
    /\ module \in {"none", "time_locale"}
    /\ \E r \in Maps \ {applTL} : applTL' = r
    /\ IF pc = "idle"
       THEN prev' = NoPrev /\ tainted' = tainted
       ELSE prev' = prev /\ tainted' = TRUE
    /\ UNCHANGED <<applEnabled, applAllocated, module, state, params, oldEnabled,
                   pc, data, locals, calls, result>>

\* ------------------------------------------------- the pool manager
\* dict.pop(key, default) on the data mapping: the value taken out
pop(d, key, default) == IF key \in d.has THEN d[key] ELSE default

\* the data mapping after the three pops: the popped keys are gone from it
Popped(d) ==
    [has |-> d.has \ {"poolType", "idList", "count"},
     poolType |-> "", idList |-> <<>>, count |-> 0, enabled |-> d.enabled]

\* the locals poolType, idList, count of execute_module
poolType == pop(params, "poolType", "")
idList == pop(params, "idList", <<>>)
count == pop(params, "count", 0)

\* changed, msg, id_pool = False, '', {}; the three pops
ID_Pops ==
    /\ pc = "exec" /\ module = "id_pools"
    /\ data' = Popped(data)
    /\ pc' = "dispatch"
    /\ UNCHANGED <<appl, input, locals, calls, result, tainted>>

\* the states of the if/elif chain that have a branch of their own
NamedBranches == {"schema", "get_pool_type", "update_pool_type", "allocate",
                  "collect", "generate", "validate_id_pool", "validate"}

\* a branch that is one read-only SDK call whose answer becomes id_pool
ReadCall(op, pt, ids) ==
    /\ pc' = "done"
    /\ \/ /\ calls' = Append(calls, Call(op, pt, ids, 0, "ok"))
          /\ result' = Ok(FALSE, "", Resp(op, pt, ids, 0, applEnabled, FALSE))
       \/ /\ calls' = Append(calls, Call(op, pt, ids, 0, "HPOneViewException"))
          /\ result' = Failed("HPOneViewException", "request failed")
    /\ UNCHANGED <<appl, input, data, locals, tainted>>

ID_Schema ==
    /\ pc = "dispatch" /\ state = "schema"
    /\ ReadCall("get_schema", "", <<>>)

ID_GetPoolType ==
    /\ pc = "dispatch" /\ state = "get_pool_type"
    /\ ReadCall("get_pool_type", poolType, <<>>)

ID_Generate ==
    /\ pc = "dispatch" /\ state = "generate"
    /\ ReadCall("generate", poolType, <<>>)

ID_ValidateIdPool ==
    /\ pc = "dispatch" /\ state = "validate_id_pool"
    /\ ReadCall("validate_id_pool", poolType, idList)

\* the final else of the chain
ID_CheckRangeAvailability ==
    /\ pc = "dispatch" /\ state \notin NamedBranches
    /\ ReadCall("get_check_range_availability", poolType, idList)

\* the two returns of __update_pool_type
update_pool_type_result(enabled, updated_pool) ==
    IF enabled # updated_pool.enabled
    THEN Ok(TRUE, MSG_UPDATED, updated_pool)
    ELSE Ok(FALSE, MSG_ALREADY_PRESENT, updated_pool)

\* __update_pool_type: the update call goes out with what is left of data;
\* only then is data['enabled'] read (a KeyError when the key is missing).
\* The appliance answers with the pool as it is after the call: the flag as
\* asked for, or the flag as it was.
ID_UpdatePoolType ==
    /\ pc = "dispatch" /\ state = "update_pool_type"
    /\ pc' = "done"
    /\ \/ \E en \in (IF "enabled" \in data.has THEN {data.enabled, applEnabled}
                                                ELSE {applEnabled}) :
             /\ calls' = Append(calls, Call("update_pool_type", poolType, <<>>, 0, "ok"))
             /\ applEnabled' = en
             /\ result' = IF "enabled" \in data.has
                          THEN update_pool_type_result(data.enabled,
                                   Resp("update_pool_type", poolType, <<>>, 0, en, FALSE))
                          ELSE Failed("KeyError", "enabled")
       \/ /\ calls' = Append(calls, Call("update_pool_type", poolType, <<>>, 0,
                                          "HPOneViewException"))
          /\ result' = Failed("HPOneViewException", "request failed")
          /\ applEnabled' = applEnabled
    /\ UNCHANGED <<applTL, applAllocated, input, data, locals, tainted>>

\* variant: the except clause catches every exception, not the value error alone
allocate_result_CatchAll(outcome, allocate) ==
    IF outcome = "ok"
    THEN Ok(TRUE, MSG_ALLOCATED, allocate)
    ELSE Failed("OneViewModuleValueError", MSG_IDS_NOT_AVAILABLE)

\* __allocate: what the handler makes of the SDK call's outcome
allocate_result(outcome, allocate) ==
    CASE outcome = "ok" -> Ok(TRUE, MSG_ALLOCATED, allocate)
      [] outcome = "OneViewModuleValueError" ->
            Failed("OneViewModuleValueError", MSG_IDS_NOT_AVAILABLE)
      [] OTHER -> Failed(outcome, "request failed")

\* the outcomes of the SDK's allocate: the identifiers are handed out (when
\* the pool has them), or the call raises a value error or another error
AllocateOutcomes(cnt) ==
    (IF applAllocated + cnt <= MaxAllocated THEN {"ok"} ELSE {})
        \cup {"OneViewModuleValueError", "HPOneViewException"}

ID_Allocate ==
    /\ pc = "dispatch" /\ state = "allocate"
    /\ pc' = "done"
    /\ \E outcome \in AllocateOutcomes(count) :
         /\ calls' = Append(calls, Call("allocate", poolType, <<>>, count, outcome))
         /\ applAllocated' = IF outcome = "ok" THEN applAllocated + count
                                               ELSE applAllocated
         /\ result' = allocate_result(outcome,
                          Resp("allocate", poolType, <<>>, count, applEnabled, FALSE))
    /\ UNCHANGED <<applTL, applEnabled, input, data, locals, tainted>>

\* id_pool = self.resource_client.collect({'idList': idList}, poolType)
ID_Collect ==
    /\ pc = "dispatch" /\ state = "collect"
    /\ pc' = "done"
    /\ \/ /\ calls' = Append(calls, Call("collect", poolType, idList, 0, "ok"))
          /\ applAllocated' = IF applAllocated >= Len(idList)
                              THEN applAllocated - Len(idList) ELSE 0
          /\ result' = Ok(FALSE, "", Resp("collect", poolType, idList, 0, applEnabled, FALSE))
       \/ /\ calls' = Append(calls, Call("collect", poolType, idList, 0, "HPOneViewException"))
          /\ result' = Failed("HPOneViewException", "request failed")
          /\ applAllocated' = applAllocated
    /\ UNCHANGED <<applTL, applEnabled, input, data, locals, tainted>>

\* the text the SDK's validate returns: a printed mapping with the keys
\* idList and valid
ValidateTexts == [idList : IdLists, valid : {"True", "False"}]

\* eval() of that text: the mapping it denotes
eval(text) == Resp("validate", "", text.idList, 0, FALSE, text.valid = "True")

\* Python truth value of a list
Truthy(list) == Len(list) > 0

\* variant: the test reads the valid flag alone
validate_result_ValidOnly(validate) ==
    IF validate.valid
    THEN Ok(TRUE, MSG_VALIDATED, validate)
    ELSE Ok(FALSE, MSG_IDS_NOT_AVAILABLE, validate)

\* the two returns of __validate
validate_result(validate) ==
    IF Truthy(validate.idList) /\ validate.valid
    THEN Ok(TRUE, MSG_VALIDATED, validate)
    ELSE Ok(FALSE, MSG_IDS_NOT_AVAILABLE, validate)

ID_Validate ==
    /\ pc = "dispatch" /\ state = "validate"
    /\ pc' = "done"
    /\ \/ /\ calls' = Append(calls, Call("validate", poolType, idList, 0, "ok"))
          /\ \E text \in ValidateTexts : result' = validate_result(eval(text))
       \/ /\ calls' = Append(calls, Call("validate", poolType, idList, 0, "HPOneViewException"))
          /\ result' = Failed("HPOneViewException", "request failed")
    /\ UNCHANGED <<appl, input, data, locals, tainted>>

Next ==
    \/ Invoke
    \/ Exit
    \/ Construct
    \/ TL_GetAll
    \/ TL_Merge
    \/ TL_Compare
    \/ TL_Create
    \/ ExternalWrite
    \/ ID_Pops
    \/ ID_Schema
    \/ ID_GetPoolType
    \/ ID_UpdatePoolType
    \/ ID_Allocate
    \/ ID_Collect
    \/ ID_Generate
    \/ ID_ValidateIdPool
    \/ ID_Validate
    \/ ID_CheckRangeAvailability

Spec == Init /\ [][Next]_vars

\* ------------------------------------------------------------ the claims
\* merge(C, D) as the claims use it: C overlaid with D, D winning
Overlay(C, D) ==
    [k \in (DOMAIN C) \cup (DOMAIN D) |-> IF k \in DOMAIN D THEN D[k] ELSE C[k]]

\* C differs from D on some key of D
Differs(C, D) == \E k \in DOMAIN D : k \notin DOMAIN C \/ C[k] # D[k]

\* remote calls that change the appliance, and those that read current state
WriteOps == {"create", "update_pool_type", "allocate", "collect"}
FetchOps == {"get_all", "get_pool_type"}

CallsOf(ops) == {i \in 1..Len(calls) : calls[i].op \in ops}
NumWrites == Cardinality(CallsOf(WriteOps))
NumFetches == Cardinality(CallsOf(FetchOps))
HasCreate == CallsOf({"create"}) # {}

\* the reconciler run has read the current state
GotCurrent ==
    /\ module = "time_locale"
    /\ Len(calls) >= 1
    /\ calls[1].op = "get_all" /\ calls[1].outcome = "ok"

\* a reconciler run, respectively a pool-manager run, that has ended
DoneTL == pc = "done" /\ module = "time_locale"
DoneID(st) == pc = "done" /\ module = "id_pools" /\ state = st

\* C1 as stated: a reconciler run that ends with a result, with C the state it
\* read and D its data: if merge(C,D) = C then changed is false and the facts
\* are C; otherwise changed is true and the facts are merge(C,D).  (Stated
\* for runs no other writer interfered with.)
C1_AsStated ==
    (DoneTL /\ result.kind = "ok" /\ ~tainted) =>
        IF Overlay(fetched, data) = fetched
        THEN ~result.changed /\ result.facts = fetched
        ELSE result.changed /\ result.facts = Overlay(fetched, data)

\* C1 amended: if merge(C,D) = C then changed is false and the facts are C;
\* otherwise changed is true, the last call is a create, and the facts are
\* the resource that create call returned (the appliance's state after it).
C1_FactsAreCreateResponse ==
    (DoneTL /\ result.kind = "ok") =>
        IF Overlay(fetched, data) = fetched
        THEN ~result.changed /\ result.facts = fetched
        ELSE /\ result.changed
             /\ calls[Len(calls)].op = "create" /\ calls[Len(calls)].outcome = "ok"
             /\ result.facts = current_resource
             /\ ~tainted => result.facts = applTL

\* C1 witness: a run that created, and whose facts are the create call's
\* answer and not merge(C,D)
C1_Witness ==
    /\ DoneTL /\ result.kind = "ok" /\ result.changed /\ ~tainted
    /\ result.facts = applTL
    /\ result.facts # Overlay(fetched, data)

\* C2: a reconciler run that ends with a result reports changed=true when the
\* state it read differed from D on some key of D; a run that directly
\* follows a completed run with the same D, no other writer in between,
\* never reaches the create call and reports changed=false.
C2_Idempotent ==
    /\ (DoneTL /\ result.kind = "ok" /\ Differs(fetched, data)) => result.changed
    /\ (module = "time_locale" /\ prev.valid /\ ~tainted) =>
          /\ pc # "create"
          /\ ~HasCreate
          /\ (pc = "done" /\ result.kind = "ok") => ~result.changed

\* C2 witness: the second of two runs with the same D, the first of which
\* reported changed=true, has ended and reports changed=false
C2_Witness ==
    /\ DoneTL /\ result.kind = "ok" /\ ~result.changed
    /\ prev.valid /\ prev.changed /\ prev.D = data /\ ~tainted
    /\ DOMAIN data # {}

\* C3: in a reconciler run that has read the current state C, a create call
\* is issued exactly when merge(C,D) differs from C; when it does not, the
\* run ends with the get_all as its only call and leaves the resource as read.
C3_WriteOnlyOnDivergence ==
    (DoneTL /\ GotCurrent) =>
        /\ HasCreate <=> (Overlay(fetched, data) # fetched)
        /\ (Overlay(fetched, data) = fetched) =>
              /\ Len(calls) = 1
              /\ ~tainted => applTL = fetched

\* C3 witness: a run with a non-empty D that matched, ended without a create
C3_Witness ==
    /\ DoneTL /\ GotCurrent /\ DOMAIN data # {}
    /\ Overlay(fetched, data) = fetched
    /\ ~HasCreate /\ applTL = fetched /\ ~result.changed
    /\ result.kind = "ok"

\* C4 as stated: an update_pool_type run that ends with a result reports
\* changed = (enabled flag of the pool before the update # the flag after it).
\* (Stated for the runs in which the appliance set the flag as asked.)
C4_ChangedIsOldVsNew ==
    (DoneID("update_pool_type") /\ result.kind = "ok" /\ applEnabled = params.enabled) =>
        (result.changed <=> (oldEnabled # applEnabled))

\* C5 as stated: a validate run that ends with a result: a non-empty input
\* idList and a backend valid=true give changed=true with MSG_VALIDATED; an
\* empty input idList gives changed=false whatever the backend answers; every
\* changed=false result carries MSG_IDS_NOT_AVAILABLE.
C5_AsStated ==
    (DoneID("validate") /\ result.kind = "ok") =>
        /\ (idList # <<>> /\ result.facts.valid) =>
              (result.changed /\ result.msg = MSG_VALIDATED)
        /\ (idList = <<>>) => ~result.changed
        /\ ~result.changed => result.msg = MSG_IDS_NOT_AVAILABLE

\* C5 amended: changed is true exactly when the idList of the backend's
\* answer is non-empty and its valid flag is true, with MSG_VALIDATED; every
\* changed=false result carries MSG_IDS_NOT_AVAILABLE; the input idList
\* decides only when the answer carries the same idList.
C5_ResponseDecides ==
    (DoneID("validate") /\ result.kind = "ok") =>
        /\ result.changed <=> (result.facts.idList # <<>> /\ result.facts.valid)
        /\ result.changed => result.msg = MSG_VALIDATED
        /\ ~result.changed => result.msg = MSG_IDS_NOT_AVAILABLE
        /\ (result.facts.idList = idList) =>
              /\ (idList # <<>> /\ result.facts.valid) => result.changed
              /\ (idList = <<>>) => ~result.changed

\* C5 witness: an empty input idList, an answer with a non-empty idList and
\* valid=true, and changed=true
C5_Witness ==
    /\ DoneID("validate") /\ result.kind = "ok"
    /\ idList = <<>> /\ result.facts.idList # <<>> /\ result.facts.valid
    /\ result.changed /\ result.msg = MSG_VALIDATED

\* C6: an allocate run issues the SDK's allocate once, with the run's count
\* and poolType; a successful call gives changed=true, MSG_ALLOCATED and the
\* call's answer as facts; the run fails with the value error carrying
\* MSG_IDS_NOT_AVAILABLE exactly when the call raised a value error; any
\* other error of the call is the run's error, as raised.
C6_AllocateOutcome ==
    DoneID("allocate") =>
        /\ Len(calls) = 1
        /\ calls[1].op = "allocate" /\ calls[1].count = count
        /\ calls[1].poolType = poolType
        /\ (calls[1].outcome = "ok") <=> (result.kind = "ok")
        /\ (result.kind = "ok") =>
              /\ result.changed /\ result.msg = MSG_ALLOCATED
              /\ result.facts = Resp("allocate", poolType, <<>>, count, applEnabled, FALSE)
        /\ (calls[1].outcome = "OneViewModuleValueError") <=>
              (result.kind = "error" /\ result.err.msg = MSG_IDS_NOT_AVAILABLE)
        /\ (calls[1].outcome = "OneViewModuleValueError") =>
              (result.err.type = "OneViewModuleValueError" /\ result.facts = EmptyFacts)
        /\ (calls[1].outcome \notin {"ok", "OneViewModuleValueError"}) =>
              result.err = [type |-> calls[1].outcome, msg |-> "request failed"]

\* C6 witness: a run with count 0 given in data whose call succeeded
C6_Witness ==
    /\ DoneID("allocate") /\ "count" \in params.has /\ count = 0
    /\ calls[1].outcome = "ok"
    /\ result.kind = "ok" /\ result.changed

\* C7 as stated, for its own example: an update_pool_type run whose data has
\* no 'enabled' key fails without having issued a remote call.
C7_NoCallBeforeValidation ==
    (DoneID("update_pool_type") /\ "enabled" \notin params.has) =>
        (result.kind = "error" /\ calls = <<>>)

\* C8 as stated: a pool-manager run whose state is none of the eight named
\* branches ends having issued exactly one get_check_range_availability call
\* with the extracted poolType and idList, and never as a rejected state;
\* its result has changed=false and an empty message.
C8_AsStated ==
    (pc = "done" /\ module = "id_pools" /\ state \notin NamedBranches) =>
        /\ Len(calls) = 1
        /\ calls[1].op = "get_check_range_availability"
        /\ calls[1].poolType = poolType /\ calls[1].idList = idList
        /\ result.err.type # "fail_json"
        /\ (result.kind = "ok") => (~result.changed /\ result.msg = "")

\* C8 amended: the else branch is taken by state check_range_availability,
\* the one declared choice without a branch of its own: one
\* get_check_range_availability call with the extracted poolType and idList,
\* changed=false and an empty message.  A state outside the nine declared
\* choices is rejected by the argument spec: the run fails with no remote call.
C8_DefaultBranch ==
    /\ DoneID("check_range_availability") =>
          /\ Len(calls) = 1
          /\ calls[1].op = "get_check_range_availability"
          /\ calls[1].poolType = poolType /\ calls[1].idList = idList
          /\ result.err.type # "fail_json"
          /\ (result.kind = "ok") => (~result.changed /\ result.msg = "")
    /\ (pc = "done" /\ module = "id_pools" /\ state \notin id_choices) =>
          /\ result.kind = "error" /\ result.err.type = "fail_json"
          /\ calls = <<>>
    /\ (module = "id_pools" /\ pc = "dispatch" /\ state \notin NamedBranches) =>
          state = "check_range_availability"

\* C8 witness: a check_range_availability run that went through the else branch
C8_Witness ==
    /\ DoneID("check_range_availability") /\ result.kind = "ok"
    /\ calls = <<Call("get_check_range_availability", poolType, idList, 0, "ok")>>
    /\ idList # <<>>

\* C9: at every point of every run, at most one state-changing remote call
\* (create, update_pool_type, allocate, collect) has been issued.
C9_AtMostOneWrite == NumWrites <= 1

\* C9 witness: a run that ended with an error after its one write
C9_Witness ==
    /\ pc = "done" /\ result.kind = "error"
    /\ NumWrites = 1

\* C10 as stated, for the runs that write: a run that has issued a
\* state-changing call has fetched the current state exactly once, before
\* that call.
C10_AsStated ==
    \A i \in CallsOf(WriteOps) :
        /\ NumFetches = 1
        /\ \E j \in CallsOf(FetchOps) : j < i

\* C10 amended: a reconciler run that reaches execute_module fetches the
\* current state exactly once, as its first call, and its create comes after
\* the fetch; the fetched state is left as fetched by the merge and is
\* replaced only by the answer of a create call.  A pool-manager run fetches
\* no current state before its write.
C10_ReconcilerReadsFirst ==
    /\ (module = "time_locale" /\ pc \in {"merge", "compare", "create", "done"}
          /\ result.err.type # "fail_json") =>
          /\ NumFetches = 1
          /\ calls[1].op = "get_all"
          /\ \A i \in CallsOf(WriteOps) : i > 1 /\ calls[i].op = "create"
    /\ (module = "time_locale" /\ pc \in {"merge", "compare", "create"}) =>
          current_resource = fetched
    /\ (DoneTL /\ GotCurrent) =>
          \/ current_resource = fetched
          \/ /\ calls[Len(calls)].op = "create" /\ calls[Len(calls)].outcome = "ok"
             /\ current_resource = result.facts
    /\ (module = "id_pools" /\ CallsOf(WriteOps) # {}) => NumFetches = 0

\* C10 witness: a reconciler run whose merge differed from the fetched state,
\* stopped before its create with the fetched state intact
C10_Witness ==
    /\ module = "time_locale" /\ pc = "create"
    /\ calls = <<Call("get_all", "", <<>>, 0, "ok")>>
    /\ current_resource = fetched
    /\ merged_data # fetched

====
